---- MODULE Spec2Model ----
(***************************************************************************)
(* Model of cmd/github-mcp-server/main.go: the configuration resolver      *)
(* (pflag flag set + viper store), the stdio handler stdioCmd.RunE, and    *)
(* main(), which serves "/", "/tools" and "/run-stdio" over HTTP.          *)
(*                                                                         *)
(* A Go string is modelled as a sequence of tokens.  A token is either a   *)
(* word or a single separator character ("_", "-", ","), so that the       *)
(* string operations the program performs (strings.ReplaceAll on the word  *)
(* separator, strings.ToUpper on an environment key, splitting a list on   *)
(* commas, fmt's concatenation) are computed, not assumed.                 *)
(***************************************************************************)
EXTENDS Naturals, Sequences, FiniteSets

VARIABLES
    argv,       \* os.Args[1:]: [sub: string, flags: sequence of [name, val]]
    env,        \* the process environment: variable name -> value
    viper,      \* the global viper store: [envPrefix, automaticEnv]
    flags,      \* rootCmd.PersistentFlags(): flag name -> [type, value, changed]
    pc,         \* position of main(): "start", "logged", "registered", "serving", "exited"
    mux,        \* patterns registered on http.DefaultServeMux
    stdout,     \* lines written to os.Stdout
    stderr,     \* lines written to os.Stderr
    exitCode,   \* NotExited, or the code passed to os.Exit
    reqs,       \* in-flight HTTP requests: slot -> handler goroutine state
    name,       \* a raw key name handed to the Key Normalizer
    normalized, \* wordSepNormalizeFunc(name)
    renormalized, \* wordSepNormalizeFunc(normalized)
    npc         \* how often the Key Normalizer has been applied: 0, 1, 2

resolverVars == <<argv, env, viper, flags>>
mainVars == <<pc, mux, stdout, stderr, exitCode>>
normVars == <<name, normalized, renormalized, npc>>
vars == <<argv, env, viper, flags, pc, mux, stdout, stderr, exitCode, reqs,
          name, normalized, renormalized, npc>>

-----------------------------------------------------------------------------
(* Bounds of the model *)

\* number of HTTP requests that can be in flight at once
MaxRequests == 2
\* longest raw key name handed to the Key Normalizer
MaxNameLen == 3

-----------------------------------------------------------------------------
(* Strings *)

Empty == <<>>
S(w) == <<w>>

\* the word separators a key may be spelled with
Seps == {"_", "-"}

\* strings.ToUpper on the words this model uses; separators and words that
\* are already upper case map to themselves
UpperTable ==
    [github |-> "GITHUB", personal |-> "PERSONAL", access |-> "ACCESS",
     token |-> "TOKEN", toolsets |-> "TOOLSETS", dynamic |-> "DYNAMIC",
     read |-> "READ", only |-> "ONLY", log |-> "LOG", file |-> "FILE",
     enable |-> "ENABLE", command |-> "COMMAND", logging |-> "LOGGING",
     export |-> "EXPORT", translations |-> "TRANSLATIONS", host |-> "HOST",
     gh |-> "GH"]

ToUpper(s) ==
    [i \in DOMAIN s |-> IF s[i] \in DOMAIN UpperTable THEN UpperTable[s[i]] ELSE s[i]]

\* strings.ReplaceAll(s, old, new) for a one-character old and new
RECURSIVE ReplaceAll(_, _, _)
ReplaceAll(s, old, new) ==
    IF s = <<>> THEN <<>>
    ELSE <<IF Head(s) = old THEN new ELSE Head(s)>> \o ReplaceAll(Tail(s), old, new)

\* strings.Split(s, ","): the pieces between the commas, in order
RECURSIVE SplitFrom(_, _)
SplitFrom(s, cur) ==
    IF s = <<>> THEN <<cur>>
    ELSE IF Head(s) = "," THEN <<cur>> \o SplitFrom(Tail(s), <<>>)
    ELSE SplitFrom(Tail(s), Append(cur, Head(s)))

SplitComma(s) == SplitFrom(s, <<>>)

-----------------------------------------------------------------------------
(* Key Normalizer *)

\* strings.Replace(name, sep, to, 1): only the first separator is replaced
RECURSIVE ReplaceFirst(_, _, _)
ReplaceFirst(s, old, new) ==
    IF s = <<>> THEN <<>>
    ELSE IF Head(s) = old THEN <<new>> \o Tail(s)
    ELSE <<Head(s)>> \o ReplaceFirst(Tail(s), old, new)

NormalizeFrom == <<"_">>
NormalizeTo == "-"

RECURSIVE NormalizeLoop(_, _)
NormalizeLoop(n, from) ==
    IF from = <<>> THEN n
    ELSE NormalizeLoop(ReplaceAll(n, Head(from), NormalizeTo), Tail(from))

RECURSIVE NormalizeLoopFirstOnly(_, _)
NormalizeLoopFirstOnly(n, from) ==
    IF from = <<>> THEN n
    ELSE NormalizeLoopFirstOnly(ReplaceFirst(n, Head(from), NormalizeTo), Tail(from))

wordSepNormalizeFunc_FirstOnly(n) == NormalizeLoopFirstOnly(n, NormalizeFrom)

wordSepNormalizeFunc(n) == NormalizeLoop(n, NormalizeFrom)

-----------------------------------------------------------------------------
(* Names: configuration keys, flags, environment variables *)

KeyToken == <<"personal", "_", "access", "_", "token">>
KeyToolsets == <<"toolsets">>
KeyDynamicToolsets == <<"dynamic", "_", "toolsets">>
KeyReadOnly == <<"read", "-", "only">>
KeyLogFile == <<"log", "-", "file">>
KeyEnableCommandLogging == <<"enable", "-", "command", "-", "logging">>
KeyExportTranslations == <<"export", "-", "translations">>
KeyHost == <<"host">>

FlagToolsets == <<"toolsets">>
FlagDynamicToolsets == <<"dynamic", "-", "toolsets">>
FlagReadOnly == <<"read", "-", "only">>
FlagLogFile == <<"log", "-", "file">>
FlagEnableCommandLogging == <<"enable", "-", "command", "-", "logging">>
FlagExportTranslations == <<"export", "-", "translations">>
FlagGhHost == <<"gh", "-", "host">>

EnvPort == <<"PORT">>
EnvToken == <<"GITHUB", "_", "PERSONAL", "_", "ACCESS", "_", "TOKEN">>

\* github.DefaultTools
DefaultTools == << <<"all">> >>

\* the build's version string
version == <<"version">>

-----------------------------------------------------------------------------
(* pflag: the persistent flag set of rootCmd *)

\* PersistentFlags().StringSlice / Bool / String: a flag is stored under its
\* normalized name with its default value, not yet changed
NewFlag(type, def) == [type |-> type, value |-> def, changed |-> FALSE]

FlagDecls ==
    << [name |-> FlagToolsets, flag |-> NewFlag("stringSlice", DefaultTools)],
       [name |-> FlagDynamicToolsets, flag |-> NewFlag("bool", S("false"))],
       [name |-> FlagReadOnly, flag |-> NewFlag("bool", S("false"))],
       [name |-> FlagLogFile, flag |-> NewFlag("string", Empty)],
       [name |-> FlagEnableCommandLogging, flag |-> NewFlag("bool", S("false"))],
       [name |-> FlagExportTranslations, flag |-> NewFlag("bool", S("false"))],
       [name |-> FlagGhHost, flag |-> NewFlag("string", Empty)] >>

\* the flag set after init(): SetGlobalNormalizationFunc is installed first,
\* so every flag is registered under its normalized name
FlagsAfterInit ==
    [n \in {wordSepNormalizeFunc(FlagDecls[i].name) : i \in DOMAIN FlagDecls} |->
        LET i == CHOOSE j \in DOMAIN FlagDecls :
                    wordSepNormalizeFunc(FlagDecls[j].name) = n
        IN  FlagDecls[i].flag]

\* FlagSet.Lookup(name): the name is normalized before the lookup
Lookup(fl, n) == wordSepNormalizeFunc(n)

\* Flag.Value.Set(val) for one occurrence --name=val on the command line.
\* A stringSlice replaces its default on the first occurrence and appends on
\* the later ones; the value is read as comma separated.
SetFlag(f, val) ==
    IF f.type = "stringSlice"
    THEN [f EXCEPT !.value = IF f.changed THEN f.value \o SplitComma(val)
                                          ELSE SplitComma(val),
                   !.changed = TRUE]
    ELSE [f EXCEPT !.value = val, !.changed = TRUE]

\* FlagSet.Parse(args): each --name=val sets the flag its normalized name
\* addresses
RECURSIVE ParseFlags(_, _)
ParseFlags(fl, args) ==
    IF args = <<>> THEN fl
    ELSE LET n == Lookup(fl, Head(args).name)
         IN  ParseFlags(IF n \in DOMAIN fl
                        THEN [fl EXCEPT ![n] = SetFlag(fl[n], Head(args).val)]
                        ELSE fl,
                        Tail(args))

-----------------------------------------------------------------------------
(* viper: the global settings store *)

\* viper.BindPFlag(key, flag) in init(): key -> the flag it is bound to
BoundFlags ==
    LET b == << <<KeyToolsets, FlagToolsets>>,
                <<KeyDynamicToolsets, FlagDynamicToolsets>>,
                <<KeyReadOnly, FlagReadOnly>>,
                <<KeyLogFile, FlagLogFile>>,
                <<KeyEnableCommandLogging, FlagEnableCommandLogging>>,
                <<KeyExportTranslations, FlagExportTranslations>>,
                <<KeyHost, FlagGhHost>> >>
    IN  [k \in {b[i][1] : i \in DOMAIN b} |->
            Lookup(FlagsAfterInit, b[CHOOSE i \in DOMAIN b : b[i][1] = k][2])]

\* the store after init(): initConfig is registered with cobra.OnInitialize
\* but has not run
ViperAfterInit == [envPrefix |-> Empty, automaticEnv |-> FALSE]

\* initConfig(): viper.SetEnvPrefix("github"); viper.AutomaticEnv()
initConfig(v) == [v EXCEPT !.envPrefix = S("github"), !.automaticEnv = TRUE]

\* os.Getenv / os.LookupEnv; an unset variable reads as the empty string
Getenv(e, n) == IF n \in DOMAIN e THEN e[n] ELSE Empty

\* viper's name of the environment variable of a key under AutomaticEnv:
\* strings.ToUpper(prefix + "_" + key)
EnvKey(v, key) ==
    IF v.envPrefix = Empty THEN ToUpper(key)
    ELSE ToUpper(v.envPrefix \o S("_") \o key)

NilValue == [kind |-> "nil", s |-> Empty, l |-> <<>>]
StrValue(s) == [kind |-> "str", s |-> s, l |-> <<>>]
ListValue(l) == [kind |-> "list", s |-> Empty, l |-> l]

FlagValue(f) == IF f.type = "stringSlice" THEN ListValue(f.value) ELSE StrValue(f.value)

\* viper.Get(key): a changed flag, then the environment (only under
\* AutomaticEnv, and an empty variable counts as unset), then the bound
\* flag's default, then nothing
Find(v, fl, e, key) ==
    IF key \in DOMAIN BoundFlags /\ fl[BoundFlags[key]].changed
        THEN FlagValue(fl[BoundFlags[key]])
    ELSE IF v.automaticEnv /\ Getenv(e, EnvKey(v, key)) # Empty
        THEN StrValue(Getenv(e, EnvKey(v, key)))
    ELSE IF key \in DOMAIN BoundFlags
        THEN FlagValue(fl[BoundFlags[key]])
    ELSE NilValue

\* viper.GetString(key)
GetString(v, fl, e, key) ==
    LET x == Find(v, fl, e, key) IN IF x.kind = "str" THEN x.s ELSE Empty

\* viper.GetBool(key): strconv.ParseBool of the string found, false otherwise
\* ("true" is the one true spelling the inputs of this model use)
GetBool(v, fl, e, key) ==
    LET x == Find(v, fl, e, key) IN x.kind = "str" /\ x.s = S("true")

NoError == [isErr |-> FALSE, msg |-> Empty]
Error(m) == [isErr |-> TRUE, msg |-> m]

\* viper.UnmarshalKey(key, &[]string): a list is taken as it is, a string is
\* split on commas, nothing leaves the target nil
UnmarshalKey(v, fl, e, key) ==
    LET x == Find(v, fl, e, key)
    IN  CASE x.kind = "list" -> [err |-> NoError, val |-> x.l]
          [] x.kind = "str"  -> [err |-> NoError, val |-> SplitComma(x.s)]
          [] OTHER           -> [err |-> NoError, val |-> <<>>]

-----------------------------------------------------------------------------
(* stdioCmd.RunE up to its call of ghmcp.RunStdioServer *)

NoConfig == [set |-> FALSE]

StdioServerConfig(v, fl, e, token, enabledToolsets) ==
    [set                  |-> TRUE,
     Version              |-> version,
     Host                 |-> GetString(v, fl, e, KeyHost),
     Token                |-> token,
     EnabledToolsets      |-> enabledToolsets,
     DynamicToolsets      |-> GetBool(v, fl, e, KeyDynamicToolsets),
     ReadOnly             |-> GetBool(v, fl, e, KeyReadOnly),
     ExportTranslations   |-> GetBool(v, fl, e, KeyExportTranslations),
     EnableCommandLogging |-> GetBool(v, fl, e, KeyEnableCommandLogging),
     LogFilePath          |-> GetString(v, fl, e, KeyLogFile)]

ErrTokenNotSet == Error(S("GITHUB_PERSONAL_ACCESS_TOKEN not set"))
ErrUnmarshal(err) == Error(S("failed to unmarshal toolsets: ") \o err.msg)

\* RunE without the check of the token
RunE_NoTokenCheck(v, fl, e) ==
    LET token == GetString(v, fl, e, KeyToken)
        ts == UnmarshalKey(v, fl, e, KeyToolsets)
    IN  IF ts.err.isErr
        THEN [err |-> ErrUnmarshal(ts.err), token |-> token, cfg |-> NoConfig]
        ELSE [err |-> NoError, token |-> token,
              cfg |-> StdioServerConfig(v, fl, e, token, ts.val)]

\* RunE: the token read, and either the error returned before the Protocol
\* Loop is called or the configuration the loop is called with
RunE(v, fl, e) ==
    LET token == GetString(v, fl, e, KeyToken)
        ts == UnmarshalKey(v, fl, e, KeyToolsets)
    IN  IF token = Empty
        THEN [err |-> ErrTokenNotSet, token |-> token, cfg |-> NoConfig]
        ELSE IF ts.err.isErr
        THEN [err |-> ErrUnmarshal(ts.err), token |-> token, cfg |-> NoConfig]
        ELSE [err |-> NoError, token |-> token,
              cfg |-> StdioServerConfig(v, fl, e, token, ts.val)]

-----------------------------------------------------------------------------
(* The inputs of a run: command line and environment *)

Arg(n, v) == [name |-> n, val |-> v]

\* command lines: none, the stdio subcommand, and the stdio subcommand with
\* flags in either spelling
ArgvChoices ==
    { [sub |-> Empty, flags |-> <<>>],
      [sub |-> S("stdio"), flags |-> <<>>],
      [sub |-> S("stdio"), flags |-> <<Arg(<<"read", "_", "only">>, S("true"))>>],
      [sub |-> S("stdio"),
       flags |-> <<Arg(<<"read", "-", "only">>, S("false")),
                   Arg(<<"dynamic", "_", "toolsets">>, S("true"))>>],
      [sub |-> S("stdio"),
       flags |-> <<Arg(<<"toolsets">>, <<"repos", ",", "issues">>),
                   Arg(<<"gh", "_", "host">>, S("ghe.example"))>>] }

EnvReadOnlyUnderscore == <<"GITHUB", "_", "READ", "_", "ONLY">>
EnvReadOnlyHyphen == <<"GITHUB", "_", "READ", "-", "ONLY">>
EnvToolsets == <<"GITHUB", "_", "TOOLSETS">>

\* the values each environment variable takes; Empty is "unset"
EnvValues ==
    << <<EnvPort, {Empty, S("9090")}>>,
       <<EnvToken, {Empty, S("tok123"), S("tokABC")}>>,
       <<EnvReadOnlyUnderscore, {Empty, S("true")}>>,
       <<EnvReadOnlyHyphen, {Empty, S("true")}>>,
       <<EnvToolsets, {Empty, <<"issues", ",", "pulls">>}>> >>

EnvNames == {EnvValues[i][1] : i \in DOMAIN EnvValues}
EnvValuesOf(n) == EnvValues[CHOOSE i \in DOMAIN EnvValues : EnvValues[i][1] = n][2]
EnvChoices ==
    {e \in [EnvNames -> UNION {EnvValues[i][2] : i \in DOMAIN EnvValues}] :
        \A n \in EnvNames : e[n] \in EnvValuesOf(n)}

-----------------------------------------------------------------------------
(* main() and the HTTP handlers *)

StatusOK == 200
StatusInternalServerError == 500
ExitFailure == 1

PatternRoot == "/"
PatternRunStdio == "/run-stdio"
PatternTools == "/tools"
Patterns == {PatternRoot, PatternRunStdio, PatternTools}

\* request paths: the three registered ones and one that is registered nowhere
Paths == Patterns \cup {"/other"}

\* http.ServeMux: an exact pattern wins, "/" catches every other path
Match(m, path) == IF path \in m THEN path ELSE PatternRoot

\* port := os.Getenv("PORT"); if port == "" { port = "8080" }
Port(e) == IF Getenv(e, EnvPort) = Empty THEN S("8080") ELSE Getenv(e, EnvPort)

\* fmt.Println("DEBUG: GITHUB_PERSONAL_ACCESS_TOKEN =", os.Getenv(...))
DebugLine(e) ==
    S("DEBUG: GITHUB_PERSONAL_ACCESS_TOKEN =") \o S(" ") \o Getenv(e, EnvToken) \o S("\n")

\* fmt.Printf("Listening on port %s...\n", port)
ListeningLine(e) == S("Listening on port ") \o Port(e) \o S("...\n")

\* the error http.ListenAndServe returns
ErrListen == Error(S("listen tcp: bind: address already in use"))

\* fmt.Fprintf(os.Stderr, "Failed to start HTTP server: %v\n", err)
ListenFailedLine(err) == S("Failed to start HTTP server: ") \o err.msg \o S("\n")

\* the errors ghmcp.RunStdioServer returns: nil when its input stream closes,
\* or an error
LoopResults == {NoError, Error(S("failed to create MCP server"))}

NoResponse == [status |-> 0, body |-> Empty]
Response(status, body) == [status |-> status, body |-> body]

\* the "/" handler's reply
RootResponse == Response(StatusOK, S("GitHub MCP Server is running") \o S("\n"))

\* toolsHandler's reply: the fixed catalog, JSON encoded
ToolsResponse ==
    Response(StatusOK,
             S("{\"tools\":[") \o S("Airbnb Search") \o S(",")
                 \o S("Airbnb Listing Details") \o S("]}") \o S("\n"))

\* the "/run-stdio" handler answers 200 whatever RunE returned
RunStdioResponse_AlwaysOK(err) == Response(StatusOK, S("Stdio server started") \o S("\n"))

\* the "/run-stdio" handler's reply to the error RunE returned
RunStdioResponse(err) ==
    IF err.isErr
    THEN Response(StatusInternalServerError,
                  S("Failed to run stdio server: ") \o err.msg \o S("\n"))
    ELSE Response(StatusOK, S("Stdio server started") \o S("\n"))

IdleRequest ==
    [pc |-> "idle", path |-> "", pattern |-> "", token |-> Empty,
     cfg |-> NoConfig, err |-> NoError, resp |-> NoResponse]

Slots == 1 .. MaxRequests

\* main(), lines 102-109: the port is read and the debug line is printed
MainDebugPrint ==
    /\ pc = "start"
    /\ stdout' = Append(stdout, DebugLine(env))
    /\ pc' = "logged"
    /\ UNCHANGED <<resolverVars, mux, stderr, exitCode, reqs, normVars>>

\* main(), lines 114-127: the three handlers are registered
MainRegister ==
    /\ pc = "logged"
    /\ mux' = {PatternRoot, PatternRunStdio, PatternTools}
    /\ pc' = "registered"
    /\ UNCHANGED <<resolverVars, stdout, stderr, exitCode, reqs, normVars>>

\* main(), line 129
MainAnnounce ==
    /\ pc = "registered"
    /\ stdout' = Append(stdout, ListeningLine(env))
    /\ pc' = "announced"
    /\ UNCHANGED <<resolverVars, mux, stderr, exitCode, reqs, normVars>>

\* main(), line 130: http.ListenAndServe binds the port and serves
ListenAndServe ==
    /\ pc = "announced"
    /\ pc' = "serving"
    /\ UNCHANGED <<resolverVars, mux, stdout, stderr, exitCode, reqs, normVars>>

\* main(), lines 130-133: http.ListenAndServe returns its error, on the bind
\* or later while serving; the process exits with status 1
ListenAndServeFails ==
    /\ pc \in {"announced", "serving"}
    /\ stderr' = Append(stderr, ListenFailedLine(ErrListen))
    /\ exitCode' = ExitFailure
    /\ pc' = "exited"
    /\ UNCHANGED <<resolverVars, mux, stdout, reqs, normVars>>

\* net/http accepts a request and dispatches it by its path
Accept(r, path) ==
    /\ pc = "serving"
    /\ reqs[r].pc = "idle"
    /\ reqs' = [reqs EXCEPT ![r] = [IdleRequest EXCEPT !.pc = "dispatched",
                                                       !.path = path,
                                                       !.pattern = Match(mux, path)]]
    /\ UNCHANGED <<resolverVars, mainVars, normVars>>

\* the "/" handler, lines 114-116
RootHandler(r) ==
    /\ pc = "serving"
    /\ reqs[r].pc = "dispatched"
    /\ reqs[r].pattern = PatternRoot
    /\ reqs' = [reqs EXCEPT ![r].resp = RootResponse, ![r].pc = "done"]
    /\ UNCHANGED <<resolverVars, mainVars, normVars>>

\* toolsHandler, lines 147-175
toolsHandler(r) ==
    /\ pc = "serving"
    /\ reqs[r].pc = "dispatched"
    /\ reqs[r].pattern = PatternTools
    /\ reqs' = [reqs EXCEPT ![r].resp = ToolsResponse, ![r].pc = "done"]
    /\ UNCHANGED <<resolverVars, mainVars, normVars>>

\* the "/run-stdio" handler, line 119: stdioCmd.RunE runs up to its return of
\* an error or its call of ghmcp.RunStdioServer, which then blocks
RunStdioCall(r) ==
    /\ pc = "serving"
    /\ reqs[r].pc = "dispatched"
    /\ reqs[r].pattern = PatternRunStdio
    /\ LET res == RunE(viper, flags, env)
       IN  reqs' = [reqs EXCEPT ![r].token = res.token,
                                ![r].cfg = res.cfg,
                                ![r].err = res.err,
                                ![r].pc = IF res.err.isErr THEN "returned" ELSE "inLoop"]
    /\ UNCHANGED <<resolverVars, mainVars, normVars>>

\* ghmcp.RunStdioServer returns, line 57
LoopReturn(r, e) ==
    /\ pc = "serving"
    /\ reqs[r].pc = "inLoop"
    /\ reqs' = [reqs EXCEPT ![r].err = e, ![r].pc = "returned"]
    /\ UNCHANGED <<resolverVars, mainVars, normVars>>

\* a handler that ends the process when RunE returned an error
RunStdioRespond_Fatal(r) ==
    /\ pc = "serving"
    /\ reqs[r].pc = "returned"
    /\ reqs' = [reqs EXCEPT ![r].resp = RunStdioResponse(reqs[r].err), ![r].pc = "done"]
    /\ IF reqs[r].err.isErr
       THEN /\ pc' = "exited"
            /\ exitCode' = ExitFailure
            /\ stderr' = Append(stderr, RunStdioResponse(reqs[r].err).body)
       ELSE UNCHANGED <<pc, exitCode, stderr>>
    /\ UNCHANGED <<resolverVars, mux, stdout, normVars>>

\* the "/run-stdio" handler, lines 120-124: the reply to RunE's result
RunStdioRespond(r) ==
    /\ pc = "serving"
    /\ reqs[r].pc = "returned"
    /\ reqs' = [reqs EXCEPT ![r].resp = RunStdioResponse(reqs[r].err), ![r].pc = "done"]
    /\ UNCHANGED <<resolverVars, mainVars, normVars>>

\* the reply has been written; the handler's goroutine ends
Close(r) ==
    /\ pc = "serving"
    /\ reqs[r].pc = "done"
    /\ reqs' = [reqs EXCEPT ![r] = IdleRequest]
    /\ UNCHANGED <<resolverVars, mainVars, normVars>>

-----------------------------------------------------------------------------
(* Specifications *)

InitProcess ==
    /\ pc = "start"
    /\ mux = {}
    /\ stdout = <<>>
    /\ stderr = <<>>
    /\ exitCode = 0
    /\ reqs = [r \in Slots |-> IdleRequest]

InitNoName ==
    /\ name = <<>>
    /\ normalized = <<>>
    /\ renormalized = <<>>
    /\ npc = 0

\* The process as main() starts it: init() has registered the flags and
\* bound them, and has handed initConfig to cobra.OnInitialize.  cobra runs
\* these callbacks and parses the command line inside Command.Execute, which
\* main() never calls: the store stays as init() left it.
Init ==
    /\ argv \in ArgvChoices
    /\ env \in EnvChoices
    /\ viper = ViperAfterInit
    /\ flags = FlagsAfterInit
    /\ InitProcess
    /\ InitNoName

\* The resolver in any of its states: as init() left it (the states of Init),
\* or initialised as Command.Execute initialises it (initConfig applied, the
\* command line parsed).  The handlers' contracts are checked over both; a
\* property that holds here holds of the process main() starts.
InitAnyResolver ==
    /\ argv \in ArgvChoices
    /\ env \in EnvChoices
    /\ \/ /\ viper = ViperAfterInit
          /\ flags = FlagsAfterInit
       \/ /\ viper = initConfig(ViperAfterInit)
          /\ flags = ParseFlags(FlagsAfterInit, argv.flags)
    /\ InitProcess
    /\ InitNoName

\* With the resolver as init() left it RunE never reaches the Protocol Loop,
\* so LoopReturn is never enabled and Next does not list it.
Next ==
    \/ MainDebugPrint
    \/ MainRegister
    \/ MainAnnounce
    \/ ListenAndServe
    \/ ListenAndServeFails
    \/ \E r \in Slots, path \in Paths : Accept(r, path)
    \/ \E r \in Slots : RootHandler(r)
    \/ \E r \in Slots : toolsHandler(r)
    \/ \E r \in Slots : RunStdioCall(r)
    \/ \E r \in Slots : RunStdioRespond(r)
    \/ \E r \in Slots : Close(r)

NextAnyResolver ==
    \/ Next
    \/ \E r \in Slots, e \in LoopResults : LoopReturn(r, e)

Spec == Init /\ [][Next]_vars

SpecAnyResolver == InitAnyResolver /\ [][NextAnyResolver]_vars

-----------------------------------------------------------------------------
(* The Key Normalizer on its own: every raw name up to MaxNameLen *)

NameAlphabet == {"a", "b", "_", "-"}
Names == UNION {[1 .. n -> NameAlphabet] : n \in 0 .. MaxNameLen}

\* pflag normalizes a name it is given
Normalize ==
    /\ npc = 0
    /\ normalized' = wordSepNormalizeFunc(name)
    /\ npc' = 1
    /\ UNCHANGED <<resolverVars, mainVars, reqs, name, renormalized>>

\* pflag normalizes a name that is already normalized (a lookup of a
\* registered flag)
NormalizeAgain ==
    /\ npc = 1
    /\ renormalized' = wordSepNormalizeFunc(normalized)
    /\ npc' = 2
    /\ UNCHANGED <<resolverVars, mainVars, reqs, name, normalized>>

InitNormalizer ==
    /\ argv = [sub |-> Empty, flags |-> <<>>]
    /\ env = [n \in EnvNames |-> Empty]
    /\ viper = ViperAfterInit
    /\ flags = FlagsAfterInit
    /\ InitProcess
    /\ name \in Names
    /\ normalized = <<>>
    /\ renormalized = <<>>
    /\ npc = 0

NextNormalizer == Normalize \/ NormalizeAgain

SpecNormalizer == InitNormalizer /\ [][NextNormalizer]_vars

-----------------------------------------------------------------------------
(* Properties *)

StdioRequests == {r \in Slots : reqs[r].pattern = PatternRunStdio}
\* the requests whose call of RunE has read the configuration
Resolved == {r \in StdioRequests : reqs[r].pc \in {"inLoop", "returned", "done"}}
ActiveLoops == {r \in Slots : reqs[r].pc = "inLoop"}

C2_ValidationBeforeTransport ==
    (pc = "serving" \/ ActiveLoops # {}) => ~RunE(viper, flags, env).err.isErr

\* C3: when RunE runs with an empty resolved token it returns the
\* missing-credential error and does not invoke the Protocol Loop; whenever
\* the loop has been invoked, the token of its configuration is the resolved
\* token and is not empty.
C3_NoLoopWithoutToken ==
    \A r \in Resolved :
        /\ reqs[r].token = GetString(viper, flags, env, KeyToken)
        /\ reqs[r].token = Empty =>
              (~reqs[r].cfg.set /\ reqs[r].err = ErrTokenNotSet)
        /\ reqs[r].cfg.set =>
              (reqs[r].cfg.Token # Empty /\ reqs[r].cfg.Token = reqs[r].token)

\* C3's case: RunE has run with an empty token and has returned its error
\* without a loop
C3_Witness ==
    \E r \in Resolved :
        /\ reqs[r].token = Empty
        /\ reqs[r].pc = "returned"
        /\ reqs[r].err.isErr

\* C4: a /run-stdio request is answered 500 with the error's text when the
\* stdio path returned an error (of the validation or of the loop), and 200
\* with the confirmation when it returned none.
C4_ResponseReflectsError ==
    \A r \in StdioRequests :
        reqs[r].pc = "done" =>
            /\ reqs[r].err.isErr =>
                  /\ reqs[r].resp.status = StatusInternalServerError
                  /\ reqs[r].resp.body =
                        S("Failed to run stdio server: ") \o reqs[r].err.msg \o S("\n")
            /\ ~reqs[r].err.isErr =>
                  /\ reqs[r].resp.status = StatusOK
                  /\ reqs[r].resp.body = S("Stdio server started") \o S("\n")
            /\ (reqs[r].token = Empty \/ reqs[r].err \in LoopResults \ {NoError})
                  => reqs[r].resp.status = StatusInternalServerError

\* C4's case: one request answered for a loop that returned an error, another
\* for a loop that returned none
C4_Witness ==
    \E r1, r2 \in StdioRequests :
        /\ reqs[r1].pc = "done" /\ reqs[r1].cfg.set /\ reqs[r1].err.isErr
        /\ reqs[r1].resp.status = StatusInternalServerError
        /\ reqs[r2].pc = "done" /\ ~reqs[r2].err.isErr
        /\ reqs[r2].resp.status = StatusOK

\* what the command line sets a flag to: the values of its occurrences, in
\* either spelling, as pflag accumulates them
RECURSIVE ArgsFor(_, _)
ArgsFor(args, flag) ==
    IF args = <<>> THEN <<>>
    ELSE (IF ReplaceAll(Head(args).name, "_", "-") = flag THEN <<Head(args).val>> ELSE <<>>)
         \o ArgsFor(Tail(args), flag)

\* the GITHUB_-prefixed environment variable of a key
GithubEnv(key) == Getenv(env, ToUpper(<<"github", "_">> \o key))

\* flag over environment over default, for a string and for a boolean key
ByPrecedence(key, flag, default) ==
    LET a == ArgsFor(argv.flags, flag)
    IN  IF a # <<>> THEN a[Len(a)]
        ELSE IF GithubEnv(key) # Empty THEN GithubEnv(key)
        ELSE default

\* C5: the value read when the ServerConfig is built is the flag's when the
\* flag is given, else the environment variable's when it is set, else the
\* default.
C5_Precedence ==
    \A r \in Resolved :
        /\ reqs[r].token = ByPrecedence(KeyToken, <<>>, Empty)
        /\ reqs[r].cfg.set =>
              /\ reqs[r].cfg.Host = ByPrecedence(KeyHost, FlagGhHost, Empty)
              /\ reqs[r].cfg.ReadOnly =
                    (ByPrecedence(KeyReadOnly, FlagReadOnly, S("false")) = S("true"))
              /\ reqs[r].cfg.DynamicToolsets =
                    (ByPrecedence(KeyDynamicToolsets, FlagDynamicToolsets, S("false"))
                        = S("true"))

\* the environment sets the token to tok123 and nothing else overrides a default
OnlyToken123 ==
    /\ argv = [sub |-> S("stdio"), flags |-> <<>>]
    /\ \A n \in EnvNames : env[n] = IF n = EnvToken THEN S("tok123") ELSE Empty

\* C6: started for stdio with GITHUB_PERSONAL_ACCESS_TOKEN=tok123 and no other
\* override, the stdio path starts the Protocol Loop with Token "tok123", the
\* default toolsets and ReadOnly false.
C6_EndToEnd ==
    OnlyToken123 =>
        \A r \in Resolved :
            /\ reqs[r].cfg.set
            /\ reqs[r].cfg.Token = S("tok123")
            /\ reqs[r].cfg.EnabledToolsets = DefaultTools
            /\ reqs[r].cfg.ReadOnly = FALSE

\* the spellings of a key: each separator written "_" or "-"
RECURSIVE Spellings(_)
Spellings(k) ==
    IF k = <<>> THEN {<<>>}
    ELSE {<<h>> \o t : h \in (IF Head(k) \in Seps THEN Seps ELSE {Head(k)}),
                       t \in Spellings(Tail(k))}

BoolKeys == {KeyDynamicToolsets, KeyReadOnly, KeyExportTranslations, KeyEnableCommandLogging}
StringKeys == {KeyToken, KeyLogFile, KeyHost}

Mentions(lines, secret) ==
    \E i \in DOMAIN lines : \E j \in DOMAIN lines[i] : \E t \in DOMAIN secret :
        lines[i][j] = secret[t]

\* C8: the value of the credential token is never written to the output
\* streams.
C8_TokenNotLogged ==
    ~Mentions(stdout, Getenv(env, EnvToken)) /\ ~Mentions(stderr, Getenv(env, EnvToken))

\* C9: while the listener serves, a step leaves it serving all three routes,
\* whatever a request's outcome; the process ends only by the listener's
\* error, with exit status 1.
C9_PerRequestFailuresLocal ==
    [][ /\ pc = "serving" => (pc' \in {"serving", "exited"} /\ mux' = Patterns)
        /\ (pc' = "exited" /\ pc # "exited") =>
              /\ exitCode' = ExitFailure
              /\ stderr' = Append(stderr, ListenFailedLine(ErrListen))
              /\ reqs' = reqs ]_vars

\* C9's case: the listener holds a new request for /tools while a /run-stdio
\* request has been answered with an error
C9_Witness ==
    /\ pc = "serving"
    /\ \E r1, r2 \in Slots :
          /\ reqs[r1].pc = "done" /\ reqs[r1].pattern = PatternRunStdio
          /\ reqs[r1].err.isErr /\ reqs[r1].resp.status = StatusInternalServerError
          /\ reqs[r2].pc = "dispatched" /\ reqs[r2].pattern = PatternTools

\* C10: the Key Normalizer replaces every "_" by "-" and nothing else, leaves
\* a name without "_" as it is, and is idempotent.
C10_NormalizerIdempotent ==
    /\ npc >= 1 =>
          /\ Len(normalized) = Len(name)
          /\ \A i \in DOMAIN name :
                normalized[i] = IF name[i] = "_" THEN "-" ELSE name[i]
          /\ (\A i \in DOMAIN name : name[i] # "_") => normalized = name
    /\ npc = 2 => renormalized = normalized

\* C10's case: a name with two "_" has been normalized twice
C10_Witness ==
    /\ npc = 2
    /\ Cardinality({i \in DOMAIN name : name[i] = "_"}) >= 2
    /\ normalized # name

====
